---- MODULE Spec2Model ----
(***************************************************************************)
(* A model of utils/person_frames.py: the PersonMovement descriptor, its   *)
(* vector construction (get_vector) and its serialisation (write_to_txt).  *)
(*                                                                         *)
(* Numbers.  The program computes in float64.  The model computes the same *)
(* expressions exactly: a number is a record [n, d, r] that stands for     *)
(* (n / d) * sqrt(r), with d > 0, gcd(n, d) = 1 and r square-free (r = 1   *)
(* for a rational), so equal reals are equal records.  The IEEE values a   *)
(* division by zero produces are the records with d = 0: n = 1 is +inf,    *)
(* n = -1 is -inf and n = 0 is nan.  Rounding is not modelled.             *)
(***************************************************************************)
EXTENDS Integers, Sequences, FiniteSets, TLC

VARIABLES list_persons, n_frames, coords, pc, err, init_times_v,
          ret, ret_err, call_times_v, call_joints_remove,
          file, write_err, write_label

vars == <<list_persons, n_frames, coords, pc, err, init_times_v,
          ret, ret_err, call_times_v, call_joints_remove,
          file, write_err, write_label>>

----------------------------------------------------------------------------
(* Bounds of the model and constants of the program.                       *)

MaxFrames == 2

MaxTimesV == 2

MaxScale == 3

DefaultTimesV == 10

NECK == 17

DefaultJointsRemove == <<0, 1, 2, 3, 4, 13, 14, 15, 16>>

----------------------------------------------------------------------------
(* float64 arithmetic, exact.                                              *)

\* An array held as a tuple: its elements are computed once, where a
\* function constructor is computed again at every application.
AsTuple(f) == f \o <<>>

Abs(i) == IF i < 0 THEN -i ELSE i

RECURSIVE Gcd(_, _)
Gcd(a, b) == IF b = 0 THEN a ELSE Gcd(b, a % b)

NaN == [n |-> 0, d |-> 0, r |-> 1]

Inf == [n |-> 1, d |-> 0, r |-> 1]

NegInf == [n |-> -1, d |-> 0, r |-> 1]

IsFinite(a) == a.d # 0

\* The quotient num / den of two integers, den # 0, in lowest terms.
Rat(num, den) ==
    LET g == Gcd(Abs(num), Abs(den))
        s == IF den < 0 THEN -1 ELSE 1
    IN  [n |-> (s * num) \div g, d |-> (s * den) \div g, r |-> 1]

Int2Num(i) == [n |-> i, d |-> 1, r |-> 1]

\* a - b in float64, for rationals and the non-finite values.
Sub(a, b) ==
    IF a = NaN \/ b = NaN THEN NaN
    ELSE IF ~IsFinite(a) THEN (IF a = b THEN NaN ELSE a)
    ELSE IF ~IsFinite(b) THEN (IF b = Inf THEN NegInf ELSE Inf)
    ELSE Rat(a.n * b.d - b.n * a.d, a.d * b.d)

\* a / h in float64, h a rational or a non-finite value; x / 0 is +-inf and
\* 0 / 0 is nan (numpy warns and goes on).
Div(a, h) ==
    IF a = NaN \/ h = NaN THEN NaN
    ELSE IF ~IsFinite(a) THEN
        (IF ~IsFinite(h) THEN NaN
         ELSE IF h.n < 0 THEN (IF a = Inf THEN NegInf ELSE Inf) ELSE a)
    ELSE IF ~IsFinite(h) THEN Int2Num(0)
    ELSE IF h.n = 0 THEN
        (IF a.n = 0 THEN NaN ELSE IF a.n > 0 THEN Inf ELSE NegInf)
    ELSE LET q == Rat(a.n * h.d, a.d * h.n)
         IN  [n |-> q.n, d |-> q.d, r |-> a.r]

RECURSIVE SquarePart(_, _, _)
SquarePart(s, k, best) ==
    IF k * k > s THEN best
    ELSE SquarePart(s, k + 1, IF s % (k * k) = 0 THEN k ELSE best)

\* math.sqrt of an integer s >= 0: k * sqrt(s / k^2), k^2 the largest square
\* dividing s.
Sqrt(s) ==
    IF s = 0 THEN Int2Num(0)
    ELSE LET k == SquarePart(s, 1, 1)
         IN  [n |-> k, d |-> 1, r |-> s \div (k * k)]

\* The sum of s[lo..hi], by halves.
RECURSIVE SumSeq(_, _, _)
SumSeq(s, lo, hi) ==
    IF lo > hi THEN 0
    ELSE IF lo = hi THEN s[lo]
    ELSE LET mid == (lo + hi) \div 2
         IN  SumSeq(s, lo, mid) + SumSeq(s, mid + 1, hi)

\* np.mean of a flat sequence of integers; the mean of nothing is nan.
np_mean(s) == IF Len(s) = 0 THEN NaN ELSE Rat(SumSeq(s, 1, Len(s)), Len(s))

----------------------------------------------------------------------------
(* Person: one frame.  keypoints_positions is the J x 2 array of the       *)
(* frame's joint coordinates, keypoints[j] the same joint as an object     *)
(* with fields x and y, H the body height.  Joint j of the program is      *)
(* element j + 1 of the sequence.                                          *)

Person(J, ox, oy, sy, h) ==
    [keypoints_positions |->
        AsTuple([k \in 1..J |-> <<ox + (k - 1), oy + sy * (k - 1)>>]),
     H |-> h]

keypoint_x(person, j) == person.keypoints_positions[j + 1][1]

keypoint_y(person, j) == person.keypoints_positions[j + 1][2]

NJoints(person) == Len(person.keypoints_positions)

\* The frames the model draws its inputs from: a pose of 18 joints with a
\* positive height, another with height 0, and one with only 17 joints.
PersonA == Person(18, 0, 0, 2, 2)

PersonZ == Person(18, 1, 1, 3, 0)

PersonS == Person(17, 0, 0, 2, 2)

Persons == {PersonA, PersonZ, PersonS}

\* The end-to-end example: five frames of 18 joints, every height 100.
ExampleFrames == AsTuple([i \in 1..5 |-> Person(18, i * i, 2 * i, 2, 100)])

SeqsUpTo(S, n) == UNION {[1..m -> S] : m \in 0..n}

FrameInputs == SeqsUpTo(Persons, MaxFrames) \cup {ExampleFrames}

TimesVInputs == (1..MaxTimesV) \cup {DefaultTimesV}

JointsRemoveInputs ==
    {DefaultJointsRemove, <<>>, <<NECK>>, <<5, 0>>, <<NECK + 1>>}

\* The arguments of a get_vector call: every times_v with the default
\* joints_remove, and every joints_remove with times_v = 1.
CallInputs ==
    {<<t, DefaultJointsRemove>> : t \in TimesVInputs}
        \cup {<<1, jr>> : jr \in JointsRemoveInputs}

----------------------------------------------------------------------------
(* numpy.                                                                  *)

\* ndarray.flatten of an (F, J', 2) array, row-major.
flatten(arr) ==
    IF Len(arr) = 0 THEN <<>>
    ELSE LET Jp == Len(arr[1])
         IN  AsTuple([e \in 1..(Len(arr) * Jp * 2) |->
                 arr[((e - 1) \div (Jp * 2)) + 1]
                    [(((e - 1) % (Jp * 2)) \div 2) + 1]
                    [((e - 1) % 2) + 1]])

RECURSIVE Compress(_, _, _)
Compress(row, keep, j) ==
    IF j > Len(row) THEN <<>>
    ELSE (IF keep[j] THEN <<row[j]>> ELSE <<>>) \o Compress(row, keep, j + 1)

RECURSIVE RemoveEach(_, _, _)
RemoveEach(row, obj, i) ==
    IF i > Len(obj) THEN row
    ELSE RemoveEach(AsTuple([k \in 1..(Len(row) - 1) |->
                        IF k <= obj[i] THEN row[k] ELSE row[k + 1]]), obj, i + 1)

\* A deletion that removes the indices one after the other, each from the
\* array the previous removal left.
np_delete_shifting(arr, obj) ==
    AsTuple([f \in 1..Len(arr) |-> RemoveEach(arr[f], obj, 1)])

\* np.delete(arr, obj, axis=1), obj in range: a mask over the original
\* positions, cleared at every index of obj, selects what is kept.
np_delete(arr, obj) ==
    AsTuple([f \in 1..Len(arr) |->
        LET J == Len(arr[f])
            keep == AsTuple([j \in 1..J |->
                        \A i \in 1..Len(obj) :
                            (IF obj[i] < 0 THEN obj[i] + J ELSE obj[i]) + 1 # j])
        IN  Compress(arr[f], keep, 1)])

\* np.repeat with the wrong shape of repetition: the sequence tiled.
np_tile(v, times) ==
    AsTuple([e \in 1..(Len(v) * times) |-> v[((e - 1) % Len(v)) + 1]])

\* No repetition at all.
np_repeat_none(v, times) == v

\* np.repeat(v, times): every element times times, in order.
np_repeat(v, times) ==
    AsTuple([e \in 1..(Len(v) * times) |-> v[((e - 1) \div times) + 1]])

----------------------------------------------------------------------------
(* PersonMovement.get_vector.                                              *)

Raise(e) == [err |-> e, coords |-> <<>>]

\* Lines 26-30: the displacement of joint 17 between consecutive frames.
body_velocity(persons, n) ==
    AsTuple([i \in 1..(n - 1) |->
        LET vix == (keypoint_x(persons[i + 1], NECK) - keypoint_x(persons[i], NECK))
                     * (keypoint_x(persons[i + 1], NECK) - keypoint_x(persons[i], NECK))
            viy == (keypoint_y(persons[i + 1], NECK) - keypoint_y(persons[i], NECK))
                     * (keypoint_y(persons[i + 1], NECK) - keypoint_y(persons[i], NECK))
        IN  Sqrt(vix + viy)])

\* Line 34: x = (xs - np.mean(xs)) / avg_h.
normalize(xs, avg_h) ==
    LET xs_flat == flatten(xs)
        mean == np_mean(xs_flat)
    IN  AsTuple([f \in 1..Len(xs) |-> AsTuple([k \in 1..Len(xs[f]) |->
            <<Div(Sub(Int2Num(xs[f][k][1]), mean), avg_h),
              Div(Sub(Int2Num(xs[f][k][2]), mean), avg_h)>>])])

\* The array allocated with one row too many; np.empty leaves the row the
\* loop never writes holding whatever was in memory (here nan).
joint_velocity_extra_row(x, n) ==
    AsTuple([i \in 1..n |-> AsTuple([k \in 1..Len(x[1]) |->
        IF i < Len(x)
        THEN <<Sub(x[i + 1][k][1], x[i][k][1]), Sub(x[i + 1][k][2], x[i][k][2])>>
        ELSE <<NaN, NaN>>])])

\* Lines 36-38: v_joints[i] = x[i + 1] - x[i]; all n - 1 rows are written.
joint_velocity(x, n) ==
    AsTuple([i \in 1..(n - 1) |-> AsTuple([k \in 1..Len(x[1]) |->
        <<Sub(x[i + 1][k][1], x[i][k][1]), Sub(x[i + 1][k][2], x[i][k][2])>>])])

\* The whole of get_vector: the exception it raises ("" for none) and the
\* (1, N) array it returns.  In source order: np.array refuses frames of
\* different joint counts (line 22, ValueError); keypoints[17] is out of
\* range for a frame of fewer than 18 joints, once the loop runs at all
\* (line 28, IndexError); np.delete has no axis 1 in the array of no frames
\* (AxisError) and refuses an index outside the J joints (IndexError), both
\* line 32.  A mean height of 0 raises nothing: the divisions of lines 34
\* and 35 give inf and nan.
get_vector(persons, n, times_v, joints_remove) ==
    IF \E i, j \in 1..Len(persons) : NJoints(persons[i]) # NJoints(persons[j])
    THEN Raise("ValueError")
    ELSE IF n >= 2 /\ \E i \in 1..n : NJoints(persons[i]) <= NECK
    THEN Raise("IndexError")
    ELSE IF Len(persons) = 0
    THEN Raise("AxisError")
    ELSE IF \E i \in 1..Len(joints_remove) :
                \/ joints_remove[i] >= NJoints(persons[1])
                \/ joints_remove[i] < -NJoints(persons[1])
    THEN Raise("IndexError")
    ELSE
    LET xs0 == AsTuple([f \in 1..Len(persons) |-> persons[f].keypoints_positions])
        hs == AsTuple([f \in 1..Len(persons) |-> persons[f].H])
        v0 == body_velocity(persons, n)
        xs == np_delete(xs0, joints_remove)
        avg_h == np_mean(hs)
        x == normalize(xs, avg_h)
        v == AsTuple([i \in 1..Len(v0) |-> Div(v0[i], avg_h)])
        v_joints == joint_velocity(x, n)
        xs_flat == flatten(xs)
        flat == AsTuple([e \in 1..Len(xs_flat) |-> Int2Num(xs_flat[e])])
                    \o np_repeat(v, times_v) \o flatten(v_joints)
    IN  [err |-> "", coords |-> <<flat>>]

----------------------------------------------------------------------------
(* PersonMovement.write_to_txt.                                            *)

\* An element of the array handed to np.savetxt: a string (dtype <U32) that
\* is either the label s or the text of the float x, or a float64 x.
StrLabel(t) == [dtype |-> "str", s |-> t, x |-> Int2Num(0)]

NumLabel(i) == [dtype |-> "float", s |-> "", x |-> Int2Num(i)]

Labels == {StrLabel("walk"), NumLabel(1)}

NoLabel == StrLabel("")

NoFile == [exists |-> FALSE, lines |-> <<>>]

\* np.append([label], coords): both raveled and concatenated; one string
\* makes the whole array an array of strings.
np_append(label, arr) ==
    LET values == IF Len(arr) = 0 THEN <<>> ELSE arr[1]
    IN  <<label>> \o AsTuple([e \in 1..Len(values) |->
                         [dtype |-> label.dtype, s |-> "", x |-> values[e]]])

\* np.savetxt(path, X, delimiter='\t') of a 1-D array X: the file is opened
\* (created or truncated), X becomes a column, and every element is written
\* as a row of its own with the format %.18e; a string does not take the
\* format, which raises TypeError and leaves the rows written before it.
np_savetxt(X) ==
    LET bad == {i \in 1..Len(X) : X[i].dtype = "str"}
        stop == IF bad = {} THEN Len(X) + 1
                ELSE CHOOSE i \in bad : \A k \in bad : i <= k
    IN  [err |-> IF bad = {} THEN "" ELSE "TypeError",
         file |-> [exists |-> TRUE,
                   lines |-> AsTuple([i \in 1..(stop - 1) |->
                                 <<[fmt |-> "%.18e", s |-> X[i].s,
                                    x |-> X[i].x]>>])]]

----------------------------------------------------------------------------------------------------------------------------------------
(* The descriptor's life: the constructor runs on the frames and times_v   *)
(* it is given, then the caller calls get_vector and write_to_txt in any   *)
(* order.  err is the exception the constructor raised ("" for none), ret  *)
(* and ret_err the value the last get_vector call returned or the          *)
(* exception it raised, file the destination of write_to_txt, write_label  *)
(* the label of the last write_to_txt call and write_err the exception it  *)
(* raised.                                                                 *)

Init ==
    /\ list_persons \in FrameInputs
    /\ init_times_v \in TimesVInputs
    /\ n_frames = 0
    /\ coords = <<>>
    /\ pc = "new"
    /\ err = ""
    /\ ret = <<>>
    /\ ret_err = ""
    /\ call_times_v = 0
    /\ call_joints_remove = <<>>
    /\ file = NoFile
    /\ write_err = ""
    /\ write_label = NoLabel

PersonMovement_init ==
    /\ pc = "new"
    /\ LET r == get_vector(list_persons, Len(list_persons), init_times_v,
                           DefaultJointsRemove)
       IN  /\ n_frames' = Len(list_persons)
           /\ coords' = r.coords
           /\ err' = r.err
           /\ pc' = IF r.err = "" THEN "built" ELSE "failed"
    /\ UNCHANGED <<list_persons, init_times_v, ret, ret_err, call_times_v,
                   call_joints_remove, file, write_err, write_label>>

\* A get_vector that keeps what it computed in self.coords.
get_vector_call_storing ==
    /\ pc = "built"
    /\ \E c \in CallInputs :
          LET r == get_vector(list_persons, n_frames, c[1], c[2])
          IN  /\ ret' = r.coords
              /\ coords' = r.coords
              /\ ret_err' = r.err
              /\ call_times_v' = c[1]
              /\ call_joints_remove' = c[2]
    /\ UNCHANGED <<list_persons, n_frames, pc, err, init_times_v, file,
                   write_err, write_label>>

get_vector_call ==
    /\ pc = "built"
    /\ \E c \in CallInputs :
          LET r == get_vector(list_persons, n_frames, c[1], c[2])
          IN  /\ ret' = r.coords
              /\ ret_err' = r.err
              /\ call_times_v' = c[1]
              /\ call_joints_remove' = c[2]
    /\ UNCHANGED <<list_persons, n_frames, coords, pc, err, init_times_v,
                   file, write_err, write_label>>

write_to_txt ==
    /\ pc = "built"
    /\ \E label \in Labels :
          LET w == np_savetxt(np_append(label, coords))
          IN  /\ file' = w.file
              /\ write_err' = w.err
              /\ write_label' = label
    /\ UNCHANGED <<list_persons, n_frames, coords, pc, err, init_times_v,
                   ret, ret_err, call_times_v, call_joints_remove>>

Next == PersonMovement_init \/ get_vector_call \/ write_to_txt

Spec == Init /\ [][Next]_vars

----------------------------------------------------------------------------
(* What the properties below speak of.                                     *)

Excluded(joints_remove) == {joints_remove[i] : i \in 1..Len(joints_remove)}

\* J' = J - |excluded|.
KeptCount(J, joints_remove) == J - Cardinality(Excluded(joints_remove))

\* The k-th joint, in the original order, that is not excluded (k from 1).
KeptIndex(k, J, joints_remove) ==
    CHOOSE j \in 0..(J - 1) :
        /\ j \notin Excluded(joints_remove)
        /\ Cardinality({i \in 0..(j - 1) : i \notin Excluded(joints_remove)}) = k - 1

VectorLength(F, Jp, R) == F * Jp * 2 + (F - 1) * R + (F - 1) * Jp * 2

\* The constructor returned, and the vector it stored.
Built == pc = "built"

\* The last get_vector call returned a vector.
Returned == call_times_v > 0 /\ ret_err = ""

J0 == NJoints(list_persons[1])

AllHeightsPositive == \A f \in 1..Len(list_persons) : list_persons[f].H > 0

\* The frames with every coordinate and every height multiplied by k.
Scale(persons, k) ==
    AsTuple([f \in 1..Len(persons) |->
        [keypoints_positions |->
            AsTuple([j \in 1..NJoints(persons[f]) |->
                <<k * persons[f].keypoints_positions[j][1],
                  k * persons[f].keypoints_positions[j][2]>>]),
         H |-> k * persons[f].H]])

SumH == SumSeq([f \in 1..Len(list_persons) |-> list_persons[f].H], 1,
               Len(list_persons))

----------------------------------------------------------------------------
\* C2: for F >= 2 frames of J joints, J' = J - |excluded| joints kept and
\* repeat factor R >= 1, the vector get_vector returns, and the one the
\* constructor stores in coords, is one row of exactly
\* F*J'*2 + (F-1)*R + (F-1)*J'*2 elements.
HasLength(v, joints_remove, R) ==
    /\ Len(v) = 1
    /\ Len(v[1]) = VectorLength(n_frames, KeptCount(J0, joints_remove), R)

C2_VectorLength ==
    /\ (Built /\ n_frames >= 2) =>
            HasLength(coords, DefaultJointsRemove, init_times_v)
    /\ (Built /\ Returned /\ n_frames >= 2) =>
            HasLength(ret, call_joints_remove, call_times_v)

\* The end-to-end example: J = 18, 9 joints excluded, F = 5, R = 10 gives 202.
C2_Witness ==
    /\ Built
    /\ list_persons = ExampleFrames
    /\ init_times_v = DefaultTimesV
    /\ Len(coords[1]) = 202
    /\ Returned
    /\ call_joints_remove = <<5, 0>>
    /\ Len(ret[1]) = 5 * 16 * 2 + 4 * 1 + 4 * 16 * 2

----------------------------------------------------------------------------
\* C5: a single frame (of more than 17 joints) with a positive height is
\* constructed without an exception, and its vector has exactly J'*2
\* elements: the position segment alone, both velocity segments empty.
C5_SingleFrame ==
    (/\ pc # "new"
     /\ Len(list_persons) = 1
     /\ J0 > NECK
     /\ list_persons[1].H > 0) =>
        /\ pc = "built"
        /\ err = ""
        /\ Len(coords) = 1
        /\ Len(coords[1]) = KeptCount(J0, DefaultJointsRemove) * 2
        /\ (n_frames - 1) * init_times_v = 0
        /\ (n_frames - 1) * KeptCount(J0, DefaultJointsRemove) * 2 = 0

C5_Witness ==
    /\ pc = "built"
    /\ list_persons = <<PersonA>>
    /\ init_times_v = DefaultTimesV
    /\ Len(coords[1]) = 18

----------------------------------------------------------------------------
\* C8: once the constructor has returned, no operation of the descriptor
\* changes coords, the frames or n_frames: coords keeps the value the
\* constructor gave it through every get_vector and write_to_txt call.
C8_CoordsFrozen ==
    [][Built => /\ coords' = coords
                /\ list_persons' = list_persons
                /\ n_frames' = n_frames]_vars

\* Both operations have run, and get_vector returned another vector than
\* the stored one.
C8_Witness ==
    /\ Built
    /\ Returned
    /\ ret # coords
    /\ file.exists
    /\ coords = get_vector(list_persons, n_frames, init_times_v,
                           DefaultJointsRemove).coords

----------------------------------------------------------------------------
\* C9: the position segment holds, frame after frame, exactly the
\* coordinates of the joints that are not excluded, in their original
\* order (the k-th kept joint of the original indexing at place k), and so
\* no coordinate of an excluded joint; every frame uses the same excluded
\* set.
PositionsAreKeptJoints(v, joints_remove) ==
    LET Jp == KeptCount(J0, joints_remove)
        kept == AsTuple([k \in 1..Jp |-> KeptIndex(k, J0, joints_remove)])
    IN  /\ Len(v) >= n_frames * Jp * 2
        /\ \A f \in 1..n_frames : \A k \in 1..Jp :
              /\ v[((f - 1) * Jp + (k - 1)) * 2 + 1]
                    = Int2Num(keypoint_x(list_persons[f], kept[k]))
              /\ v[((f - 1) * Jp + (k - 1)) * 2 + 2]
                    = Int2Num(keypoint_y(list_persons[f], kept[k]))

C9_JointFiltering ==
    /\ Built => PositionsAreKeptJoints(coords[1], DefaultJointsRemove)
    /\ (Built /\ Returned) => PositionsAreKeptJoints(ret[1], call_joints_remove)

\* A call that excluded joints 5 and 0, given in that order, on two frames.
C9_Witness ==
    /\ Built
    /\ Returned
    /\ n_frames >= 2
    /\ call_joints_remove = <<5, 0>>
    /\ ret[1][1] = Int2Num(keypoint_x(list_persons[1], 1))
    /\ ret[1][7] = Int2Num(keypoint_x(list_persons[1], 4))
    /\ ret[1][9] = Int2Num(keypoint_x(list_persons[1], 6))
    /\ ret[1][33] = Int2Num(keypoint_x(list_persons[2], 1))

----------------------------------------------------------------------------
\* C10: with a positive mean height, the body-velocity segment is, for
\* i = 1..F-1 in frame order, a run of exactly R copies of one finite
\* scalar e >= 0 with (e * avg_height)^2 = dx^2 + dy^2, dx and dy the
\* displacement of the raw joint-17 coordinates from frame i-1 to frame i;
\* and the segment for a repeat factor R2 = m * R1 is the segment for R1
\* with every run m times as long.
BodyOffset(joints_remove) == n_frames * KeptCount(J0, joints_remove) * 2

BodySegment(v, joints_remove, R) ==
    SubSeq(v, BodyOffset(joints_remove) + 1,
           BodyOffset(joints_remove) + (n_frames - 1) * R)

NeckDisplacement2(i) ==
    LET dx == keypoint_x(list_persons[i + 1], NECK) - keypoint_x(list_persons[i], NECK)
        dy == keypoint_y(list_persons[i + 1], NECK) - keypoint_y(list_persons[i], NECK)
    IN  dx * dx + dy * dy

RunsOfVelocity(v, joints_remove, R) ==
    LET seg == BodySegment(v, joints_remove, R)
    IN  /\ Len(seg) = (n_frames - 1) * R
        /\ \A i \in 1..(n_frames - 1) : \A c \in 1..R :
              LET e == seg[(i - 1) * R + c]
              IN  /\ IsFinite(e)
                  /\ e.n >= 0
                  /\ e.n * e.n * e.r * SumH * SumH
                        = NeckDisplacement2(i) * n_frames * n_frames * e.d * e.d

Stretched(short, long, m) ==
    /\ Len(long) = m * Len(short)
    /\ \A j \in 1..Len(short) : \A c \in 1..m : long[(j - 1) * m + c] = short[j]

C10_BodyVelocityRuns ==
    /\ (Built /\ SumH > 0) =>
            RunsOfVelocity(coords[1], DefaultJointsRemove, init_times_v)
    /\ (Built /\ Returned /\ SumH > 0) =>
            /\ RunsOfVelocity(ret[1], call_joints_remove, call_times_v)
            /\ \A m \in 1..DefaultTimesV :
                  call_times_v = m * init_times_v =>
                      Stretched(BodySegment(coords[1], DefaultJointsRemove, init_times_v),
                                BodySegment(ret[1], call_joints_remove, call_times_v), m)

\* Four different scalars, built with R1 = 2 and returned with R2 = 10.
C10_Witness ==
    /\ Built
    /\ Returned
    /\ list_persons = ExampleFrames
    /\ init_times_v = 2
    /\ call_times_v = DefaultTimesV
    /\ BodySegment(coords[1], DefaultJointsRemove, 2)[2]
          # BodySegment(coords[1], DefaultJointsRemove, 2)[3]
    /\ BodySegment(ret[1], DefaultJointsRemove, DefaultTimesV)[10]
          = BodySegment(coords[1], DefaultJointsRemove, 2)[2]
    /\ BodySegment(ret[1], DefaultJointsRemove, DefaultTimesV)[11]
          = BodySegment(coords[1], DefaultJointsRemove, 2)[3]

----------------------------------------------------------------------------
\* C1: the vector is three segments in this order: the flattened
\* normalised positions ((coordinate - global mean of the kept
\* coordinates) / avg_height, frame then joint then axis), the replicated
\* body velocities, the flattened joint velocities
\* (norm_positions[i] - norm_positions[i-1], i = 1..F-1).
C1_ThreeSegments ==
    (Built /\ AllHeightsPositive) =>
        LET xs == np_delete(AsTuple([f \in 1..n_frames |->
                                list_persons[f].keypoints_positions]),
                            DefaultJointsRemove)
            avg_height == Rat(SumH, n_frames)
            norm_positions == normalize(xs, avg_height)
            v0 == body_velocity(list_persons, n_frames)
            v == AsTuple([i \in 1..Len(v0) |-> Div(v0[i], avg_height)])
        IN  coords[1] = flatten(norm_positions)
                            \o np_repeat(v, init_times_v)
                            \o flatten(joint_velocity(norm_positions, n_frames))

----------------------------------------------------------------------------
\* C3: constructing a descriptor raises, and leaves no vector at all,
\* whenever the frame sequence is empty, the mean of the heights is zero,
\* or the frames do not all have the same number of joints.
Degenerate ==
    \/ Len(list_persons) = 0
    \/ SumH = 0
    \/ \E f, g \in 1..Len(list_persons) :
          NJoints(list_persons[f]) # NJoints(list_persons[g])

C3_DegenerateRaises ==
    (pc # "new" /\ Degenerate) => (pc = "failed" /\ err # "" /\ coords = <<>>)

----------------------------------------------------------------------------
\* C4: construction raises, and computes no vector, whenever an excluded
\* joint index or the reference joint index 17 is out of range for the
\* frames' J joints, or the reference joint is among the excluded joints.
BadConfiguration(J, joints_remove) ==
    \/ NECK >= J
    \/ \E j \in Excluded(joints_remove) : j >= J
    \/ NECK \in Excluded(joints_remove)

C4_ConfigurationRaises ==
    (/\ pc # "new"
     /\ Len(list_persons) >= 1
     /\ BadConfiguration(J0, DefaultJointsRemove)) =>
        (pc = "failed" /\ err # "" /\ coords = <<>>)

----------------------------------------------------------------------------
\* C6: write_to_txt with a string label on a constructed descriptor whose
\* vector has N elements succeeds and leaves in the file exactly one
\* record of N + 1 tab-delimited fields: the label, then the N values of
\* the vector in order.
C6_OneRecord ==
    (Built /\ file.exists /\ write_label.dtype = "str") =>
        /\ write_err = ""
        /\ Len(file.lines) = 1
        /\ Len(file.lines[1]) = Len(coords[1]) + 1
        /\ file.lines[1][1].s = write_label.s
        /\ \A e \in 1..Len(coords[1]) : file.lines[1][e + 1].x = coords[1][e]

----------------------------------------------------------------------------
\* C7: multiplying every coordinate and every height by a constant k > 0
\* leaves the position segment and the joint-velocity segment of the
\* vector as they were.
PositionSegment(v) ==
    SubSeq(v, 1, BodyOffset(DefaultJointsRemove))

JointVelocitySegment(v) ==
    SubSeq(v, BodyOffset(DefaultJointsRemove) + (n_frames - 1) * init_times_v + 1,
           Len(v))

C7_ScaleInvariance ==
    (Built /\ AllHeightsPositive) =>
        \A k \in 2..MaxScale :
            LET scaled == get_vector(Scale(list_persons, k), n_frames,
                                     init_times_v, DefaultJointsRemove).coords[1]
            IN  /\ PositionSegment(scaled) = PositionSegment(coords[1])
                /\ JointVelocitySegment(scaled) = JointVelocitySegment(coords[1])

====
